---- MODULE Spec2Model ----
(***************************************************************************)
(* Model of the Sudoku solver of src/src/main.rs: the grid of 81           *)
(* variables, the constraint neighbourhood, the AC-3 propagator and the    *)
(* recursive backtracking driver, run from main.                           *)
(***************************************************************************)
EXTENDS Integers, Sequences, FiniteSets, TLC

(***************************************************************************)
(* Program constants.                                                      *)
(***************************************************************************)
Side == 9
BoxSide == 3
Cells == 81

(***************************************************************************)
(* Bounds of the model.                                                    *)
(***************************************************************************)
\* inputs blank the first 0..MaxBlanks cells of a solved grid
MaxBlanks == 3
\* the last clue of such an input is raised by each of 0..MaxShift (modulo 9)
MaxShift == 1
\* number of HashSet iteration orders a run may be given
NumOrders == 3
\* a refused file has a wrong character at one of its first MaxEdit places
MaxEdit == 2
\* the clues of a row in the grids given to the ac3 loop alone
MaxRowClues == 6

Idx == 0 .. (Cells - 1)
Values == 1 .. Side

(***************************************************************************)
(* enum Variable and struct Assignment.                                    *)
(***************************************************************************)
Assigned(v) == [tag |-> "Assigned", val |-> v, domain |-> {}]
Unassigned(d) == [tag |-> "Unassigned", val |-> 0, domain |-> d]
IsAssigned(var) == var.tag = "Assigned"

\* the map of from_file over the digits of the input (whitespace dropped)
from_digits(digits) ==
    [x \in Idx |-> IF digits[x + 1] = 0 THEN Unassigned(Values)
                                       ELSE Assigned(digits[x + 1])]

assigned_variables(assignment) ==
    SelectSeq([k \in 1 .. Cells |-> [x |-> k - 1, val |-> assignment[k - 1].val]],
              LAMBDA p : IsAssigned(assignment[p.x]))

\* unassigned_variable with a scan that starts at the second cell
unassigned_variable_skip_first(assignment) ==
    IF \E x \in Idx \ {0} : ~IsAssigned(assignment[x])
    THEN LET x == CHOOSE i \in Idx \ {0} :
                     /\ ~IsAssigned(assignment[i])
                     /\ \A j \in Idx \ {0} : j < i => IsAssigned(assignment[j])
         IN [some |-> TRUE, x |-> x, domain |-> assignment[x].domain]
    ELSE [some |-> FALSE, x |-> 0, domain |-> {}]

unassigned_variable(assignment) ==
    IF \E x \in Idx : ~IsAssigned(assignment[x])
    THEN LET x == CHOOSE i \in Idx :
                     /\ ~IsAssigned(assignment[i])
                     /\ \A j \in Idx : j < i => IsAssigned(assignment[j])
         IN [some |-> TRUE, x |-> x, domain |-> assignment[x].domain]
    ELSE [some |-> FALSE, x |-> 0, domain |-> {}]

(***************************************************************************)
(* generate_constraints: the indices pushed, in the order of the pushes.   *)
(***************************************************************************)
\* generate_constraints without the loop over the box
generate_constraints_no_box(x) ==
    LET col == x % Side
        row == x \div Side
        lines == [k \in 1 .. 2 * Side |->
                     LET offset == (k - 1) \div 2
                     IN IF k % 2 = 1 THEN col + offset * Side
                                     ELSE row * Side + offset]
    IN SelectSeq(lines, LAMBDA j : j # x)

\* generate_constraints whose box loops skip neither the column nor the row of x
generate_constraints_whole_box(x) ==
    LET col == x % Side
        row == x \div Side
        lines == [k \in 1 .. 2 * Side |->
                     LET offset == (k - 1) \div 2
                     IN IF k % 2 = 1 THEN col + offset * Side
                                     ELSE row * Side + offset]
        box_base_col == BoxSide * (col \div BoxSide)
        box_base_row == BoxSide * (row \div BoxSide)
        boxes == [k \in 1 .. BoxSide * BoxSide |->
                     [c |-> box_base_col + ((k - 1) \div BoxSide),
                      r |-> box_base_row + ((k - 1) % BoxSide)]]
        box == [k \in 1 .. Len(boxes) |-> boxes[k].r * Side + boxes[k].c]
    IN SelectSeq(lines, LAMBDA j : j # x) \o SelectSeq(box, LAMBDA j : j # x)

generate_constraints(x) ==
    LET col == x % Side
        row == x \div Side
        lines == [k \in 1 .. 2 * Side |->
                     LET offset == (k - 1) \div 2
                     IN IF k % 2 = 1 THEN col + offset * Side
                                     ELSE row * Side + offset]
        box_base_col == BoxSide * (col \div BoxSide)
        box_base_row == BoxSide * (row \div BoxSide)
        boxes == [k \in 1 .. BoxSide * BoxSide |->
                     [c |-> box_base_col + ((k - 1) \div BoxSide),
                      r |-> box_base_row + ((k - 1) % BoxSide)]]
        kept == SelectSeq(boxes, LAMBDA b : b.c # col /\ b.r # row)
        box == [k \in 1 .. Len(kept) |-> kept[k].r * Side + kept[k].c]
    IN SelectSeq(lines, LAMBDA j : j # x) \o SelectSeq(box, LAMBDA j : j # x)

(***************************************************************************)
(* ac3.  ac3_for is the loop over the neighbours of one popped pair,       *)
(* ac3_pop one iteration of the while loop, for the pair at position k of  *)
(* the queue.                                                              *)
(***************************************************************************)
\* ac3_for that leaves a cell with one candidate Unassigned
RECURSIVE ac3_for_no_convert(_, _, _, _, _, _)
ac3_for_no_convert(assignment, queue, x, val, ys, k) ==
    IF k > Len(ys)
    THEN [ok |-> TRUE, assignment |-> assignment, queue |-> queue]
    ELSE LET y == ys[k]
             var == assignment[y]
         IN IF IsAssigned(var)
            THEN IF var.val = val
                 THEN [ok |-> FALSE, assignment |-> assignment, queue |-> queue]
                 ELSE ac3_for_no_convert(assignment, queue, x, val, ys, k + 1)
            ELSE ac3_for_no_convert(
                     [assignment EXCEPT ![y] = Unassigned(var.domain \ {val})],
                     queue, x, val, ys, k + 1)

\* ac3_for that turns the popped cell x, not its neighbour y, into Assigned
RECURSIVE ac3_for_wrong_cell(_, _, _, _, _, _)
ac3_for_wrong_cell(assignment, queue, x, val, ys, k) ==
    IF k > Len(ys)
    THEN [ok |-> TRUE, assignment |-> assignment, queue |-> queue]
    ELSE LET y == ys[k]
             var == assignment[y]
         IN IF IsAssigned(var)
            THEN IF var.val = val
                 THEN [ok |-> FALSE, assignment |-> assignment, queue |-> queue]
                 ELSE ac3_for_wrong_cell(assignment, queue, x, val, ys, k + 1)
            ELSE LET domain == var.domain \ {val}
                 IN IF val \in var.domain /\ Cardinality(domain) = 1
                    THEN LET v == CHOOSE w \in domain : TRUE
                         IN ac3_for_wrong_cell(
                                [assignment EXCEPT ![x] = Assigned(v)],
                                Append(queue, [x |-> y, val |-> v]),
                                x, val, ys, k + 1)
                    ELSE ac3_for_wrong_cell(
                             [assignment EXCEPT ![y] = Unassigned(domain)],
                             queue, x, val, ys, k + 1)

\* ac3_for that leaves the for loop after the first cell it turns into Assigned
RECURSIVE ac3_for_break(_, _, _, _, _, _)
ac3_for_break(assignment, queue, x, val, ys, k) ==
    IF k > Len(ys)
    THEN [ok |-> TRUE, assignment |-> assignment, queue |-> queue]
    ELSE LET y == ys[k]
             var == assignment[y]
         IN IF IsAssigned(var)
            THEN IF var.val = val
                 THEN [ok |-> FALSE, assignment |-> assignment, queue |-> queue]
                 ELSE ac3_for_break(assignment, queue, x, val, ys, k + 1)
            ELSE LET domain == var.domain \ {val}
                 IN IF val \in var.domain /\ Cardinality(domain) = 1
                    THEN LET v == CHOOSE w \in domain : TRUE
                         IN [ok |-> TRUE,
                             assignment |-> [assignment EXCEPT ![y] = Assigned(v)],
                             queue |-> Append(queue, [x |-> y, val |-> v])]
                    ELSE ac3_for_break(
                             [assignment EXCEPT ![y] = Unassigned(domain)],
                             queue, x, val, ys, k + 1)

\* the for loop of ac3 over the neighbours ys of x, from the k-th on; each
\* round takes the grid and the worklist as they stand
RECURSIVE ac3_for(_, _, _, _, _, _)
ac3_for(assignment, queue, x, val, ys, k) ==
    CHOOSE r \in {
        IF k > Len(ys)
        THEN [ok |-> TRUE, assignment |-> grid, queue |-> worklist]
        ELSE LET y == ys[k]
                 var == grid[y]
             IN IF IsAssigned(var)
                THEN IF var.val = val
                     THEN [ok |-> FALSE, assignment |-> grid, queue |-> worklist]
                     ELSE ac3_for(grid, worklist, x, val, ys, k + 1)
                ELSE LET domain == var.domain \ {val}
                     IN IF val \in var.domain /\ Cardinality(domain) = 1
                        THEN LET v == CHOOSE w \in domain : TRUE
                             IN ac3_for([grid EXCEPT ![y] = Assigned(v)],
                                        Append(worklist, [x |-> y, val |-> v]),
                                        x, val, ys, k + 1)
                        ELSE ac3_for([grid EXCEPT ![y] = Unassigned(domain)],
                                     worklist, x, val, ys, k + 1)
        : grid \in {assignment}, worklist \in {queue}} : TRUE

\* the body of ac3's while loop for the pair at position k of the queue
ac3_pop(assignment, queue, k) ==
    LET rest == SubSeq(queue, 1, k - 1) \o SubSeq(queue, k + 1, Len(queue))
    IN CHOOSE r \in {ac3_for(assignment, rest, queue[k].x, queue[k].val, ys, 1) :
                         ys \in {generate_constraints(queue[k].x)}} : TRUE

(***************************************************************************)
(* from_file: the characters of the file, without the whitespace, are      *)
(* mapped by to_digit and collected into an array of 81 variables.         *)
(***************************************************************************)
is_whitespace(c) == c \in {" ", "\t", "\n", "\r"}

\* char::to_digit(10): Some(n) for the characters 0 to 9, None for the others
to_digit(c) ==
    CASE c = "0" -> [some |-> TRUE, n |-> 0]
      [] c = "1" -> [some |-> TRUE, n |-> 1]
      [] c = "2" -> [some |-> TRUE, n |-> 2]
      [] c = "3" -> [some |-> TRUE, n |-> 3]
      [] c = "4" -> [some |-> TRUE, n |-> 4]
      [] c = "5" -> [some |-> TRUE, n |-> 5]
      [] c = "6" -> [some |-> TRUE, n |-> 6]
      [] c = "7" -> [some |-> TRUE, n |-> 7]
      [] c = "8" -> [some |-> TRUE, n |-> 8]
      [] c = "9" -> [some |-> TRUE, n |-> 9]
      [] OTHER -> [some |-> FALSE, n |-> 0]

\* from_file with a length test that lets shorter inputs through
from_file_short(chars) ==
    LET v == SelectSeq(chars, LAMBDA c : ~is_whitespace(c))
    IN IF \E k \in 1 .. Len(v) : ~to_digit(v[k]).some
       THEN [ok |-> FALSE, error |-> "non-digit in input", digits |-> << >>]
       ELSE IF Len(v) > Cells
       THEN [ok |-> FALSE, error |-> "invalid length of input", digits |-> << >>]
       ELSE [ok |-> TRUE, error |-> "",
             digits |-> [k \in 1 .. Cells |->
                            IF k <= Len(v) THEN to_digit(v[k]).n ELSE 0]]

\* the digits from_file builds the grid from, or its error
from_file(chars) ==
    LET v == SelectSeq(chars, LAMBDA c : ~is_whitespace(c))
    IN IF \E k \in 1 .. Len(v) : ~to_digit(v[k]).some
       THEN [ok |-> FALSE, error |-> "non-digit in input", digits |-> << >>]
       ELSE IF Len(v) # Cells
       THEN [ok |-> FALSE, error |-> "invalid length of input", digits |-> << >>]
       ELSE [ok |-> TRUE, error |-> "",
             digits |-> [k \in 1 .. Len(v) |-> to_digit(v[k]).n]]

(***************************************************************************)
(* Input grids, as the 81 digits the parser is given.                      *)
(***************************************************************************)
\* a solved grid
BaseDigits ==
    [k \in 1 .. Cells |->
        LET r == (k - 1) \div Side
            c == (k - 1) % Side
        IN ((BoxSide * (r % BoxSide) + (r \div BoxSide) + c) % Side) + 1]

\* the solved grid with its first n cells blank and its last clue shifted by d
Puzzle(n, d) ==
    [k \in 1 .. Cells |->
        IF k <= n THEN 0
        ELSE IF k = Cells THEN ((BaseDigits[k] - 1 + d) % Side) + 1
        ELSE BaseDigits[k]]

\* 81 zeros
BlankDigits == [k \in 1 .. Cells |-> 0]

\* clues 1..8 in the first row and a 9 below its last cell, which is left
\* with no candidate although no two clues are equal
SparseDigits ==
    [k \in 1 .. Cells |->
        IF k < Side THEN k ELSE IF k = 2 * Side THEN Side ELSE 0]

\* the solved grid with 41 cells blank: the search on it has to backtrack
HardDigits ==
    <<1, 2, 3, 4, 0, 6, 7, 8, 0,
      4, 0, 6, 0, 8, 0, 1, 2, 0,
      0, 0, 0, 1, 2, 3, 0, 0, 0,
      2, 3, 4, 0, 6, 0, 0, 0, 1,
      5, 0, 0, 8, 0, 0, 0, 0, 4,
      8, 0, 1, 0, 3, 0, 0, 0, 0,
      3, 4, 5, 6, 0, 0, 9, 0, 0,
      6, 0, 0, 9, 0, 0, 3, 0, 0,
      9, 1, 2, 0, 4, 0, 6, 0, 8>>

Inputs ==
    {Puzzle(n, d) : n \in 0 .. MaxBlanks, d \in 0 .. MaxShift}
        \cup {BlankDigits, SparseDigits, HardDigits}

(***************************************************************************)
(* Input files.                                                            *)
(***************************************************************************)
DigitChars == <<"0", "1", "2", "3", "4", "5", "6", "7", "8", "9">>

\* the digits written one after the other
Text(digits) == [k \in 1 .. Len(digits) |-> DigitChars[digits[k] + 1]]

\* the digits written as nine lines of nine
RECURSIVE Lines(_)
Lines(digits) ==
    IF Len(digits) <= Side
    THEN Text(digits) \o <<"\n">>
    ELSE Text(SubSeq(digits, 1, Side)) \o <<"\n">>
             \o Lines(SubSeq(digits, Side + 1, Len(digits)))

\* a text with its p-th character replaced by c
Replaced(chars, p, c) == [chars EXCEPT ![p] = c]

\* files that from_file refuses: a character that is no digit, one digit
\* too many or too few, a blank in the place of a digit, nothing at all
BadTexts ==
    {Replaced(t, p, c) : t \in {Text(BaseDigits), Lines(HardDigits)},
                         p \in 1 .. MaxEdit, c \in {"x", ".", "-", " "}}
        \cup {Text(BaseDigits) \o <<"5">>,
              SubSeq(Text(BaseDigits), 1, Cells - 1),
              Lines(BaseDigits) \o Text(<<1>>),
              Text(<<1, 2, 3>>) \o <<"x">>,
              << >>}

Texts == {Text(d) : d \in Inputs} \cup {Lines(d) : d \in Inputs} \cup BadTexts

\* The order in which a HashSet<u8> is iterated is not fixed by the code (the
\* hasher is seeded at random).  A run is given one order for all its sets,
\* chosen among NumOrders: the k-th is the ascending (k odd) or descending
\* (k even) order of 1..9, rotated.
IterOrder(k) ==
    [i \in 1 .. Side |->
        IF k % 2 = 1 THEN ((i - 1 + ((k - 1) \div 2)) % Side) + 1
                     ELSE ((2 * Side * k - i - ((k - 2) \div 2)) % Side) + 1]

Orders == {IterOrder(k) : k \in 1 .. NumOrders}

\* the first value of a domain in the iteration order
iter_next(ord, domain) ==
    ord[CHOOSE i \in 1 .. Side :
            /\ ord[i] \in domain
            /\ \A j \in 1 .. (i - 1) : ord[j] \notin domain]

(***************************************************************************)
(* The state: main's input, the call stack of backtrack, the call being    *)
(* made, the value being returned.                                         *)
(***************************************************************************)
VARIABLES
    text,            \* the characters of the file main is given
    input,           \* the digits read by from_file
    order,           \* the iteration order of this run's hash sets
    pc,              \* "call", "for", "ac3", "return", "done"
    stack,           \* the active frames of backtrack, the root first; with
                     \* the history of each: candidates rejected by ac3 and
                     \* recursive calls of its own that failed
    arg,             \* the arguments of the call being made
    new_assignment,  \* the copy of the frame's grid with the guess assigned,
                     \* which ac3 takes and changes
    queue,           \* the worklist of the running ac3
    any,             \* a run of ac3's loop that pops any pair of its worklist
    ret,             \* the Result being returned
    outcome,         \* what main did with the result
    total_called,    \* history: invocations of backtrack so far
    total_failed,    \* history: recursive calls that returned failure so far
    guesses,         \* history: candidate values assigned so far
    inconsistent,    \* history: ac3 calls that signalled a contradiction so far
    run,             \* 1 for the first solve of the input, 2 for the second
    first            \* the result of the first solve

vars == <<text, any, input, order, pc, stack, arg, new_assignment, queue, ret, outcome,
          total_called, total_failed, guesses, inconsistent, run, first>>

Ok(assignment, called, failed) ==
    [ok |-> TRUE, assignment |-> assignment, called |-> called, failed |-> failed]

\* Err carries no grid and no counters
Err ==
    [ok |-> FALSE, assignment |-> [x \in Idx |-> Unassigned({})],
     called |-> 0, failed |-> 0]

Top == stack[Len(stack)]
Pop == SubSeq(stack, 1, Len(stack) - 1)

\* main up to the call backtrack(assignment, 0, 0)
Init ==
    /\ input \in Inputs
    /\ text = Text(input)
    /\ any = [ok |-> TRUE, assignment |-> from_digits(input), queue |-> << >>,
              lifo |-> TRUE]
    /\ order \in Orders
    /\ pc = "call"
    /\ stack = << >>
    /\ arg = [assignment |-> from_digits(input), called |-> 0, failed |-> 0]
    /\ new_assignment = from_digits(input)
    /\ queue = << >>
    /\ ret = Err
    /\ outcome = "running"
    /\ total_called = 0
    /\ total_failed = 0
    /\ guesses = 0
    /\ inconsistent = 0
    /\ run = 1
    /\ first = Err

\* entry of backtrack: count the call, select a cell or return the grid
backtrack_enter ==
    /\ pc = "call"
    /\ LET called == arg.called + 1
           u == unassigned_variable(arg.assignment)
       IN IF u.some
          THEN /\ stack' = Append(stack, [assignment |-> arg.assignment,
                                          x |-> u.x, todo |-> u.domain,
                                          called |-> called,
                                          failed |-> arg.failed,
                                          rejected |-> 0,
                                          direct_failed |-> 0])
               /\ pc' = "for"
               /\ ret' = ret
          ELSE /\ ret' = Ok(arg.assignment, called, arg.failed)
               /\ pc' = "return"
               /\ stack' = stack
    /\ total_called' = total_called + 1
    /\ UNCHANGED <<text, any, input, order, arg, new_assignment, queue, outcome, total_failed,
                   guesses, inconsistent, run, first>>

\* the guess is assigned in the grid the earlier candidate left behind
backtrack_guess_in_place ==
    /\ pc = "for"
    /\ Top.todo # {}
    /\ LET val == iter_next(order, Top.todo)
           guessed == [new_assignment EXCEPT ![Top.x] = Assigned(val)]
       IN /\ new_assignment' = guessed
          /\ queue' = assigned_variables(guessed)
          /\ stack' = [stack EXCEPT ![Len(stack)].todo = @ \ {val}]
    /\ guesses' = guesses + 1
    /\ pc' = "ac3"
    /\ UNCHANGED <<text, any, input, order, arg, ret, outcome, total_called, total_failed,
                   inconsistent, run, first>>

\* the next candidate of the for loop: copy the grid, assign the guess and
\* call ac3, which seeds its queue
backtrack_guess ==
    /\ pc = "for"
    /\ Top.todo # {}
    /\ LET val == iter_next(order, Top.todo)
           guessed == [Top.assignment EXCEPT ![Top.x] = Assigned(val)]
       IN /\ new_assignment' = guessed
          /\ queue' = assigned_variables(guessed)
          /\ stack' = [stack EXCEPT ![Len(stack)].todo = @ \ {val}]
    /\ guesses' = guesses + 1
    /\ pc' = "ac3"
    /\ UNCHANGED <<text, any, input, order, arg, ret, outcome, total_called, total_failed,
                   inconsistent, run, first>>

\* ac3 whose contradiction is returned by backtrack to its own caller
ac3_step_bail ==
    /\ pc = "ac3"
    /\ queue # << >>
    /\ LET r == ac3_pop(new_assignment, queue, Len(queue))
       IN /\ new_assignment' = r.assignment
          /\ queue' = r.queue
          /\ pc' = IF r.ok THEN "ac3" ELSE "return"
          /\ inconsistent' = IF r.ok THEN inconsistent ELSE inconsistent + 1
          /\ stack' = IF r.ok THEN stack ELSE Pop
          /\ ret' = IF r.ok THEN ret ELSE Err
    /\ UNCHANGED <<text, any, input, order, arg, outcome, total_called,
                   total_failed, guesses, run, first>>

\* one iteration of the while loop of ac3: pop the last pair and visit its
\* neighbours; a contradiction makes backtrack continue with the next candidate
ac3_step ==
    /\ pc = "ac3"
    /\ queue # << >>
    /\ \E r \in {ac3_pop(new_assignment, queue, Len(queue))} :
          /\ new_assignment' = r.assignment
          /\ queue' = r.queue
          /\ pc' = IF r.ok THEN "ac3" ELSE "for"
          /\ inconsistent' = IF r.ok THEN inconsistent ELSE inconsistent + 1
          /\ stack' = IF r.ok THEN stack
                      ELSE [stack EXCEPT ![Len(stack)].rejected = @ + 1]
    /\ UNCHANGED <<text, any, input, order, arg, ret, outcome, total_called,
                   total_failed, guesses, run, first>>

\* the recursive call is given the grid of the frame, not the grid of ac3
ac3_return_parent_grid ==
    /\ pc = "ac3"
    /\ queue = << >>
    /\ arg' = [assignment |-> Top.assignment, called |-> Top.called,
               failed |-> Top.failed]
    /\ pc' = "call"
    /\ UNCHANGED <<text, any, input, order, stack, new_assignment, queue, ret, outcome,
                   total_called, total_failed, guesses, inconsistent, run, first>>

\* the queue is empty: ac3 returns the grid and backtrack recurses on it
ac3_return ==
    /\ pc = "ac3"
    /\ queue = << >>
    /\ arg' = [assignment |-> new_assignment, called |-> Top.called,
               failed |-> Top.failed]
    /\ pc' = "call"
    /\ UNCHANGED <<text, any, input, order, stack, new_assignment, queue, ret, outcome,
                   total_called, total_failed, guesses, inconsistent, run, first>>

\* the for loop ran out of candidates: bail!("failure")
backtrack_exhausted ==
    /\ pc = "for"
    /\ Top.todo = {}
    /\ ret' = Err
    /\ stack' = Pop
    /\ pc' = "return"
    /\ UNCHANGED <<text, any, input, order, arg, new_assignment, queue, outcome, total_called,
                   total_failed, guesses, inconsistent, run, first>>

\* the recursive call succeeded: return its result
backtrack_return_ok ==
    /\ pc = "return"
    /\ stack # << >>
    /\ ret.ok
    /\ stack' = Pop
    /\ UNCHANGED <<text, any, input, order, pc, arg, new_assignment, queue, ret, outcome,
                   total_called, total_failed, guesses, inconsistent, run, first>>

\* backtrack that returns the failure of a recursive call as its own result
backtrack_return_err_bail ==
    /\ pc = "return"
    /\ stack # << >>
    /\ ~ret.ok
    /\ stack' = Pop
    /\ total_failed' = total_failed + 1
    /\ UNCHANGED <<text, any, input, order, pc, arg, new_assignment, queue, ret, outcome,
                   total_called, guesses, inconsistent, run, first>>

\* backtrack that goes on with the next candidate without counting the failure
backtrack_return_err_no_count ==
    /\ pc = "return"
    /\ stack # << >>
    /\ ~ret.ok
    /\ stack' = [stack EXCEPT ![Len(stack)].direct_failed = @ + 1]
    /\ total_failed' = total_failed + 1
    /\ pc' = "for"
    /\ UNCHANGED <<text, any, input, order, arg, new_assignment, queue, ret, outcome,
                   total_called, guesses, inconsistent, run, first>>

\* the recursive call failed: count it and go on with the next candidate
backtrack_return_err ==
    /\ pc = "return"
    /\ stack # << >>
    /\ ~ret.ok
    /\ stack' = [stack EXCEPT ![Len(stack)].failed = @ + 1,
                               ![Len(stack)].direct_failed = @ + 1]
    /\ total_failed' = total_failed + 1
    /\ pc' = "for"
    /\ UNCHANGED <<text, any, input, order, arg, new_assignment, queue, ret, outcome,
                   total_called, guesses, inconsistent, run, first>>

\* what Display does with a grid
Display(assignment) ==
    IF \A x \in Idx : IsAssigned(assignment[x]) THEN "printed" ELSE "panic"

\* main after the root call returned: exit with the error, or print
main_finish ==
    /\ pc = "return"
    /\ stack = << >>
    /\ outcome' = IF ret.ok THEN Display(ret.assignment) ELSE "error"
    /\ pc' = "done"
    /\ UNCHANGED <<text, any, input, order, stack, arg, new_assignment, queue, ret,
                   total_called,
                   total_failed, guesses, inconsistent, run, first>>

Next ==
    \/ backtrack_enter
    \/ backtrack_guess
    \/ ac3_step
    \/ ac3_return
    \/ backtrack_exhausted
    \/ backtrack_return_ok
    \/ backtrack_return_err
    \/ main_finish

Spec == Init /\ [][Next]_vars

\* the program, every step of which is taken sooner or later: main is one
\* thread and nothing but the end of the program stops it
SpecFair == Spec /\ WF_vars(Next)

\* the program is run a second time on the same input
main_again ==
    /\ pc = "done"
    /\ run = 1
    /\ run' = 2
    /\ first' = ret
    /\ order' \in Orders
    /\ pc' = "call"
    /\ stack' = << >>
    /\ arg' = [assignment |-> from_digits(input), called |-> 0, failed |-> 0]
    /\ new_assignment' = from_digits(input)
    /\ queue' = << >>
    /\ ret' = Err
    /\ outcome' = "running"
    /\ total_called' = 0
    /\ total_failed' = 0
    /\ guesses' = 0
    /\ inconsistent' = 0
    /\ UNCHANGED <<text, any, input>>

NextTwice == Next \/ main_again

SpecTwice == Init /\ [][NextTwice]_vars

(***************************************************************************)
(* main from its first line: the file is read and parsed, and the solver   *)
(* runs on the grid if there is one.                                       *)
(***************************************************************************)
NoGrid == [x \in Idx |-> Unassigned({})]

InitParse ==
    /\ text \in Texts
    /\ order \in Orders
    /\ pc = "start"
    /\ input = << >>
    /\ any = [ok |-> TRUE, assignment |-> NoGrid, queue |-> << >>,
              lifo |-> TRUE]
    /\ stack = << >>
    /\ arg = [assignment |-> NoGrid, called |-> 0, failed |-> 0]
    /\ new_assignment = NoGrid
    /\ queue = << >>
    /\ ret = Err
    /\ outcome = "running"
    /\ total_called = 0
    /\ total_failed = 0
    /\ guesses = 0
    /\ inconsistent = 0
    /\ run = 1
    /\ first = Err

\* main's call of from_file: exit with its error, or call backtrack
main_from_file ==
    /\ pc = "start"
    /\ LET r == from_file(text)
       IN IF r.ok
          THEN /\ input' = r.digits
               /\ arg' = [assignment |-> from_digits(r.digits), called |-> 0,
                          failed |-> 0]
               /\ new_assignment' = from_digits(r.digits)
               /\ any' = [ok |-> TRUE, assignment |-> from_digits(r.digits),
                          queue |-> << >>, lifo |-> TRUE]
               /\ pc' = "call"
               /\ outcome' = outcome
          ELSE /\ pc' = "done"
               /\ outcome' = "error"
               /\ UNCHANGED <<input, arg, new_assignment, any>>
    /\ UNCHANGED <<text, order, stack, queue, ret, total_called, total_failed,
                   guesses, inconsistent, run, first>>

NextParse == main_from_file \/ Next

SpecParse == InitParse /\ [][NextParse]_vars

(***************************************************************************)
(* The loop of ac3 alone, on the grid of backtrack's first guess: once in  *)
(* the order of the code, which pops the last pair, and once popping any   *)
(* pair of the worklist.                                                   *)
(***************************************************************************)

\* a grid with the clues 1 .. n at the end of the first row, the value n + 2
\* below the second cell and, on demand, below the third: the cells left in
\* the first row cascade when one of them is guessed
CascadeDigits(n, extra) ==
    [k \in 1 .. Cells |->
        LET x == k - 1
        IN IF x < Side /\ x >= Side - n THEN x - (Side - n) + 1
           ELSE IF x = BoxSide * Side + 1 THEN n + 2
           ELSE IF extra /\ x = 2 * BoxSide * Side + 2 THEN n + 2
           ELSE 0]

CascadeInputs ==
    {CascadeDigits(n, extra) :
         n \in (MaxRowClues - 1) .. MaxRowClues, extra \in BOOLEAN}

\* an iteration order of the candidates that begins with val
OrderFrom(val) == [i \in 1 .. Side |-> ((val + i - 2) % Side) + 1]

\* backtrack(assignment, 0, 0) has selected its cell and guessed its first
\* candidate; ac3 has seeded its worklist
InitAc3 ==
    /\ input \in CascadeInputs
    /\ text = Text(input)
    /\ \E val \in Values :
          LET u == unassigned_variable(from_digits(input))
              guessed == [from_digits(input) EXCEPT ![u.x] = Assigned(val)]
          IN /\ order = OrderFrom(val)
             /\ stack = <<[assignment |-> from_digits(input), x |-> u.x,
                           todo |-> u.domain \ {val}, called |-> 1,
                           failed |-> 0, rejected |-> 0, direct_failed |-> 0]>>
             /\ new_assignment = guessed
             /\ queue = assigned_variables(guessed)
             /\ any = [ok |-> TRUE, assignment |-> guessed,
                       queue |-> assigned_variables(guessed), lifo |-> TRUE]
    /\ pc = "ac3"
    /\ arg = [assignment |-> from_digits(input), called |-> 0, failed |-> 0]
    /\ ret = Err
    /\ outcome = "running"
    /\ total_called = 1
    /\ total_failed = 0
    /\ guesses = 1
    /\ inconsistent = 0
    /\ run = 1
    /\ first = Err

\* one iteration of the while loop of ac3 that pops the pair at any position
any_pop ==
    /\ pc \in {"call", "for"}
    /\ any.ok
    /\ any.queue # << >>
    /\ \E k \in 1 .. Len(any.queue) :
          LET r == ac3_pop(any.assignment, any.queue, k)
          IN any' = [ok |-> r.ok, assignment |-> r.assignment,
                     queue |-> r.queue,
                     lifo |-> any.lifo /\ k = Len(any.queue)]
    /\ UNCHANGED <<text, input, order, pc, stack, arg, new_assignment, queue,
                   ret, outcome, total_called, total_failed, guesses,
                   inconsistent, run, first>>

NextAc3 == ac3_step \/ ac3_return \/ any_pop

SpecAc3 == InitAc3 /\ [][NextAc3]_vars

(***************************************************************************)
(* Vocabulary of the properties, stated without the solver's code.         *)
(***************************************************************************)
RowOf(x) == x \div Side
ColOf(x) == x % Side
BoxOf(x) == BoxSide * (RowOf(x) \div BoxSide) + (ColOf(x) \div BoxSide)

\* x and y are two cells of one row, column or box
SameUnit(x, y) ==
    /\ x # y
    /\ \/ RowOf(x) = RowOf(y)
       \/ ColOf(x) = ColOf(y)
       \/ BoxOf(x) = BoxOf(y)

\* the 27 rows, columns and boxes, as sets of cells
Units ==
    {{x \in Idx : RowOf(x) = u} : u \in 0 .. (Side - 1)}
        \cup {{x \in Idx : ColOf(x) = u} : u \in 0 .. (Side - 1)}
        \cup {{x \in Idx : BoxOf(x) = u} : u \in 0 .. (Side - 1)}

\* every row, column and box holds each of 1..9 exactly once
ValidGrid(assignment) ==
    \A unit \in Units : \A v \in Values :
        Cardinality({x \in unit : assignment[x] = Assigned(v)}) = 1

AllAssigned(assignment) == \A x \in Idx : IsAssigned(assignment[x])

\* every Assigned cell of a is Assigned to the same value in b
Keeps(a, b) == \A x \in Idx : IsAssigned(a[x]) => b[x] = a[x]

\* two equal clues in one row, column or box
DuplicateClues(digits) ==
    \E x, y \in Idx :
        SameUnit(x, y) /\ digits[x + 1] # 0 /\ digits[x + 1] = digits[y + 1]

\* a blank cell every value of which is a clue of one of its neighbours
DeadCell(digits) ==
    \E x \in Idx :
        /\ digits[x + 1] = 0
        /\ \A v \in Values : \E y \in Idx : SameUnit(x, y) /\ digits[y + 1] = v

\* two reasons for which an input has no valid completion
NoCompletion(digits) == DuplicateClues(digits) \/ DeadCell(digits)

\* a valid grid that agrees with every clue of the input
HasCompletion(digits) ==
    \E s \in {BaseDigits} :
        /\ ValidGrid(from_digits(s))
        /\ \A k \in 1 .. Cells : digits[k] # 0 => digits[k] = s[k]

\* exactly one blank cell, whose neighbours hold eight distinct digits
SingleBlank(digits) ==
    /\ Cardinality({k \in 1 .. Cells : digits[k] = 0}) = 1
    /\ \E x \in Idx :
          /\ digits[x + 1] = 0
          /\ Cardinality({digits[y + 1] : y \in {z \in Idx : SameUnit(x, z)}}) = Side - 1

\* the grids in play, each derived from the one before it: the input grid,
\* the grid of every active frame, and the grid being propagated, passed to a
\* call or returned
Chain ==
    <<from_digits(input)>>
        \o [k \in 1 .. Len(stack) |-> stack[k].assignment]
        \o (IF pc = "ac3" THEN <<new_assignment>>
            ELSE IF pc = "call" THEN <<arg.assignment>>
            ELSE IF pc \in {"return", "done"} /\ ret.ok THEN <<ret.assignment>>
            ELSE << >>)

\* ac3 has just returned this grid to backtrack
Ac3Returned == pc = "call" /\ stack # << >>

\* no Assigned cell shares its value with a neighbour, Assigned or candidate
Sound(assignment) ==
    \A x, y \in Idx :
        (IsAssigned(assignment[x]) /\ SameUnit(x, y)) =>
            IF IsAssigned(assignment[y])
            THEN assignment[y].val # assignment[x].val
            ELSE assignment[x].val \notin assignment[y].domain

(***************************************************************************)
(* The properties.                                                         *)
(***************************************************************************)

\* C1: if the top-level solve returns success, every row, column and box of
\* the returned grid holds each of 1..9 exactly once.
C1_Validity ==
    (pc = "done" /\ ret.ok) => ValidGrid(ret.assignment)

\* C2: for an input with no valid completion (two equal clues in a unit, or a
\* blank cell without candidate), the top-level call returns failure and main
\* exits with the error; no grid is returned and nothing panics.
C2_UnsolvableFails ==
    (pc = "done" /\ NoCompletion(input)) => (~ret.ok /\ outcome = "error")

\* C3: for an input that has a valid completion agreeing with its clues, the
\* top-level call returns success.
C3_Complete ==
    (pc = "done" /\ HasCompletion(input)) => ret.ok

C3_Witness ==
    /\ pc = "done"
    /\ HasCompletion(input)
    /\ ret.ok
    /\ total_failed > 0

\* C4: a cell Assigned in a grid is Assigned to the same value in every grid
\* derived from it by a guess or by ac3; so every clue of the input keeps its
\* value in the grid returned on success.
C4_Fidelity ==
    /\ \A k \in 1 .. (Len(Chain) - 1) : Keeps(Chain[k], Chain[k + 1])
    /\ (pc = "done" /\ ret.ok) => Keeps(from_digits(input), ret.assignment)

C4_Witness ==
    /\ pc = "done"
    /\ ret.ok
    /\ guesses > 0
    /\ \E k \in 1 .. Cells : input[k] # 0
    /\ \E k \in 1 .. Cells : input[k] = 0

\* C5: in a grid returned by ac3, no neighbour of an Assigned cell is Assigned
\* to its value or has its value as a candidate.
C5_PropagationSound ==
    Ac3Returned => Sound(arg.assignment)

C5_Witness ==
    /\ Ac3Returned
    /\ \E x, y \in Idx :
          /\ SameUnit(x, y)
          /\ IsAssigned(arg.assignment[x])
          /\ ~IsAssigned(arg.assignment[y])
          /\ ~IsAssigned(Top.assignment[x])
          /\ arg.assignment[x].val \in Top.assignment[y].domain

\* C6: on an input with two equal clues in a unit, no candidate is guessed
\* before ac3 has signalled a contradiction.
C6_DetectedBeforeBranching ==
    (DuplicateClues(input) /\ guesses > 0) => inconsistent > 0

\* C7: on success, the returned called is the number of invocations of
\* backtrack over the whole search, and the returned failed the number of
\* recursive calls that failed over the whole search.
C7_CountersAreTotals ==
    (pc = "done" /\ ret.ok) =>
        (ret.called = total_called /\ ret.failed = total_failed)

\* C8: the second solve of an input returns what the first returned: the same
\* grid and counters, or failure both times.
C8_Determinism ==
    (run = 2 /\ pc = "done") => ret = first

\* C9: an input with one blank cell whose neighbours hold eight distinct
\* digits is solved without a guess: called is 1 and failed is 0.
C9_SingleBlankNoBranching ==
    (SingleBlank(input) /\ pc = "done") =>
        (ret.ok /\ guesses = 0 /\ ret.called = 1 /\ ret.failed = 0)

\* C10: a grid returned as success has all its 81 cells Assigned, and main's
\* print of it never panics.
C10_SuccessAllAssigned ==
    /\ (pc \in {"return", "done"} /\ ret.ok) => AllAssigned(ret.assignment)
    /\ outcome # "panic"

C10_Witness ==
    /\ outcome = "printed"
    /\ guesses > 0
    /\ \E k \in 1 .. Cells : input[k] = 0

\* the characters of a file that are no whitespace
Stripped(chars) == SelectSeq(chars, LAMBDA c : c \notin {" ", "\t", "\n", "\r"})

\* a file that is not 81 digits once its whitespace is dropped
Malformed(chars) ==
    LET v == Stripped(chars)
    IN \/ Len(v) # Cells
       \/ \E k \in 1 .. Len(v) : \A n \in 1 .. Len(DigitChars) : v[k] # DigitChars[n]

\* the cell a digit character stands for
CellOf(c) ==
    IF c = "0" THEN Unassigned(Values)
    ELSE Assigned((CHOOSE n \in 1 .. Len(DigitChars) : DigitChars[n] = c) - 1)

\* the grid a file of 81 digits stands for
GridOf(chars) == LET v == Stripped(chars) IN [x \in Idx |-> CellOf(v[x + 1])]

\* C11: on a file that is not 81 digits once its whitespace is dropped, main
\* exits with from_file's error and neither backtrack nor ac3 runs; on any
\* other file, backtrack is first called on the grid that has each digit 1..9
\* Assigned and each 0 Unassigned with the candidates 1..9.
C11_FromFile ==
    IF Malformed(text)
    THEN /\ pc \in {"start", "done"}
         /\ pc = "done" => outcome = "error"
         /\ total_called = 0 /\ guesses = 0 /\ stack = << >> /\ queue = << >>
    ELSE (pc = "call" /\ total_called = 0) =>
             (arg.assignment = GridOf(text) /\ from_digits(input) = GridOf(text))

C11_Witness ==
    /\ pc = "done"
    /\ Malformed(text)
    /\ Len(Stripped(text)) = Cells
    /\ outcome = "error"

\* every Unassigned cell of the grid has at least two candidates
TwoCandidates(assignment) ==
    \A x \in Idx :
        IsAssigned(assignment[x]) \/ Cardinality(assignment[x].domain) >= 2

\* an iteration of ac3's loop: a cell it turns into Assigned had the popped
\* value and one other candidate, is Assigned to that other candidate and is
\* pushed on the worklist; no cell is left with fewer than two candidates
ConvertStep ==
    (pc = "ac3" /\ queue # << >>) =>
        /\ TwoCandidates(new_assignment')
        /\ \A y \in Idx :
              (~IsAssigned(new_assignment[y]) /\ IsAssigned(new_assignment'[y])) =>
                  /\ new_assignment[y].domain \ {queue[Len(queue)].val}
                         = {new_assignment'[y].val}
                  /\ \E k \in 1 .. Len(queue') :
                         queue'[k] = [x |-> y, val |-> new_assignment'[y].val]

\* C12: in every grid held by a frame of backtrack, passed to it, returned or
\* being changed by ac3, an Unassigned cell has at least two candidates; a set
\* that an iteration of ac3 reduces to one element is turned into Assigned
\* with that element in the same iteration, and its pair is pushed.
C12_CandidateSets ==
    /\ [](\A k \in 1 .. Len(Chain) : TwoCandidates(Chain[k]))
    /\ [][ConvertStep]_vars

C12_Witness ==
    /\ pc = "ac3"
    /\ \E y \in Idx :
          /\ y # Top.x
          /\ ~IsAssigned(Top.assignment[y])
          /\ IsAssigned(new_assignment[y])
          /\ \E k \in 1 .. Len(queue) :
                 queue[k] = [x |-> y, val |-> new_assignment[y].val]

\* the candidates of a frame's cell, and those the for loop has taken
DomainOf(frame) == frame.assignment[frame.x].domain
Taken(frame) == DomainOf(frame) \ frame.todo

\* every candidate a frame has taken was rejected by ac3 or made the recursive
\* call fail, but the one being tried
Accounted ==
    \A k \in 1 .. Len(stack) :
        /\ stack[k].todo \subseteq DomainOf(stack[k])
        /\ Cardinality(Taken(stack[k])) =
               stack[k].rejected + stack[k].direct_failed
                   + (IF k < Len(stack) \/ pc # "for" THEN 1 ELSE 0)

\* a call returns failure only from its for loop, all candidates taken
FailsByExhaustion ==
    (Len(stack') < Len(stack) /\ ~ret'.ok) =>
        /\ pc = "for"
        /\ Top.todo = {}
        /\ Cardinality(DomainOf(Top)) = Top.rejected + Top.direct_failed
        /\ stack' = Pop

\* a call whose candidates are all taken returns failure; one that selects
\* no cell returns success
ExhaustionFails ==
    /\ (pc = "for" /\ Top.todo = {}) =>
          (stack' = Pop /\ ~ret'.ok /\ pc' = "return")
    /\ (pc = "call" /\ pc' = "return") => ret'.ok

\* a contradiction signalled by ac3 goes no further than the for loop of the
\* frame that guessed: no call is made and nothing is returned
HandledAtCallSite ==
    (inconsistent' # inconsistent) =>
        /\ pc' = "for"
        /\ Len(stack') = Len(stack)
        /\ stack'[Len(stack)].rejected = Top.rejected + 1
        /\ stack'[Len(stack)].todo = Top.todo
        /\ ret' = ret
        /\ arg' = arg
        /\ total_called' = total_called

\* C13: a call of backtrack returns failure if and only if it selected a cell
\* and every candidate of the cell was rejected by ac3 or made the recursive
\* call fail; a contradiction of ac3 makes the frame that guessed go on with
\* its next candidate, without a call, and is not returned.
C13_FailureByExhaustion ==
    /\ []Accounted
    /\ [][FailsByExhaustion /\ ExhaustionFails /\ HandledAtCallSite]_vars

C13_Witness ==
    /\ pc = "for"
    /\ Top.todo = {}
    /\ Top.rejected > 0
    /\ Top.direct_failed > 0

\* the worklist holds the pair of every Assigned cell of the grid, once
SeededWithAll(assignment, worklist) ==
    /\ \A x \in Idx :
          IsAssigned(assignment[x]) =>
              \E k \in 1 .. Len(worklist) :
                  worklist[k] = [x |-> x, val |-> assignment[x].val]
    /\ Len(worklist) = Cardinality({x \in Idx : IsAssigned(assignment[x])})

\* C14: the first call of ac3 starts with the pair of every Assigned cell on
\* the worklist; every later call, made by backtrack after a guess, starts
\* with the guessed pair alone.
C14_Seeding ==
    [][(pc # "ac3" /\ pc' = "ac3") =>
           IF guesses = 0
           THEN SeededWithAll(new_assignment', queue')
           ELSE queue' = <<[x |-> Top.x, val |-> new_assignment'[Top.x].val]>>]_vars

\* the run that pops any pair has ended, after the run of the code
AnyDone == pc \in {"call", "for"} /\ (~any.ok \/ any.queue = << >>)

\* C15: whichever pair each iteration of ac3's loop pops, the run signals a
\* contradiction exactly if the run popping the last pair does, and otherwise
\* returns the same grid, Assigned values and candidate sets alike.
C15_OrderIndependence ==
    AnyDone =>
        /\ any.ok <=> pc = "call"
        /\ any.ok => any.assignment = arg.assignment

C15_Witness ==
    /\ AnyDone
    /\ any.ok
    /\ ~any.lifo
    /\ \E y, z \in Idx :
          /\ y # z
          /\ ~IsAssigned(Top.assignment[y]) /\ y # Top.x
          /\ ~IsAssigned(Top.assignment[z]) /\ z # Top.x
          /\ IsAssigned(any.assignment[y])
          /\ IsAssigned(any.assignment[z])

NumAssigned(assignment) == Cardinality({x \in Idx : IsAssigned(assignment[x])})

\* the recursion is no deeper than the blank cells of the input plus one, each
\* call is given more Assigned cells than its caller, and the worklist holds a
\* cell at most once, with the value it is Assigned to
DepthBounded ==
    /\ Len(stack) + (IF pc = "call" THEN 1 ELSE 0)
           <= Cells - NumAssigned(from_digits(input)) + 1
    /\ Len(stack) + 1 <= Cells + 1
    /\ \A k \in 2 .. Len(stack) :
          NumAssigned(stack[k].assignment) > NumAssigned(stack[k - 1].assignment)
    /\ (pc = "call" /\ stack # << >>) =>
          NumAssigned(arg.assignment) > NumAssigned(Top.assignment)
    /\ pc = "ac3" =>
          /\ \A j, k \in 1 .. Len(queue) : queue[j].x = queue[k].x => j = k
          /\ \A k \in 1 .. Len(queue) :
                new_assignment[queue[k].x] = Assigned(queue[k].val)

\* an iteration of ac3's loop that goes on takes one pair off the worklist and
\* pushes the cells it turns from Unassigned into Assigned, and no other; no
\* cell turns back
PushedOnce ==
    (pc = "ac3" /\ pc' = "ac3") =>
        LET newly == {y \in Idx : ~IsAssigned(new_assignment[y])
                                    /\ IsAssigned(new_assignment'[y])}
        IN /\ Len(queue') = Len(queue) - 1 + Cardinality(newly)
           /\ SubSeq(queue', 1, Len(queue) - 1) = SubSeq(queue, 1, Len(queue) - 1)
           /\ \A k \in Len(queue) .. Len(queue') : queue'[k].x \in newly
           /\ \A y \in Idx :
                 IsAssigned(new_assignment[y]) => IsAssigned(new_assignment'[y])

\* C16: every call of ac3 ends and the program ends with success or failure;
\* beyond the seeding a cell is pushed on the worklist only when it turns from
\* Unassigned into Assigned, so at most once; each recursive call of backtrack
\* is given a grid with more Assigned cells than its caller's, and the
\* recursion is no deeper than the blank cells of the input plus one.
C16_Termination ==
    /\ []DepthBounded
    /\ [][PushedOnce]_vars
    /\ [](pc = "ac3" => <>(pc # "ac3"))
    /\ <>(pc = "done" /\ outcome \in {"printed", "error"})

C16_Witness ==
    /\ pc = "call"
    /\ Len(stack) >= 2
    /\ NumAssigned(arg.assignment) > NumAssigned(Top.assignment) + 1

\* the failed recursive calls made by the first k frames of the stack
RECURSIVE DirectFailed(_)
DirectFailed(k) ==
    IF k = 0 THEN 0 ELSE DirectFailed(k - 1) + stack[k].direct_failed

\* the call that finds the grid complete returns the number of frames from
\* the root call to itself and the failed calls those frames made
CountsTheChain ==
    (pc = "call" /\ pc' = "return") =>
        /\ ret'.ok
        /\ ret'.called = Len(stack) + 1
        /\ ret'.failed = DirectFailed(Len(stack))
        /\ ret'.called >= 1
        /\ ret'.called <= 1 + Cells - NumAssigned(from_digits(input))

\* the frames of the chain hand the result on as it is, up to main
HandedOn == (pc = "return" /\ ret.ok) => ret' = ret

\* C17: on success of backtrack(grid, 0, 0), called is the number of frames
\* from the root call to the call that found the grid complete, between 1 and
\* the blank cells of the input plus one, and failed is the number of failed
\* recursive calls made by those frames; calls and failures inside a failed
\* subtree and candidates rejected by ac3 are not in them.
C17_CountersOfTheChain == [][CountsTheChain /\ HandedOn]_vars

C17_Witness ==
    /\ pc = "done"
    /\ ret.ok
    /\ ret.failed > 0
    /\ total_failed > ret.failed
    /\ total_called > ret.called
    /\ inconsistent > 0

\* the grid a candidate is tried on is the grid of the frame with the selected
\* cell Assigned to a candidate not tried before, whatever new_assignment held
TriedOnCopy ==
    (pc = "for" /\ pc' = "ac3") =>
        \E val \in Top.todo :
            new_assignment' = [Top.assignment EXCEPT ![Top.x] = Assigned(val)]

\* the grid and the cell of a frame stay as they are while the frame is there
FrameKept ==
    \A k \in 1 .. Len(stack) :
        k <= Len(stack') =>
            /\ stack'[k].assignment = stack[k].assignment
            /\ stack'[k].x = stack[k].x

\* C18: in a call of backtrack every candidate is tried on a copy of the
\* call's grid that differs from it in the selected cell only, Assigned to the
\* candidate, whatever ac3 or the recursive call did for an earlier candidate;
\* the call's own grid is unchanged until the call returns.
C18_SnapshotIsolation == [][TriedOnCopy /\ FrameKept]_vars

C18_Witness ==
    /\ pc = "ac3"
    /\ Top.rejected > 0
    /\ Top.direct_failed > 0
    /\ \E val \in Values :
          new_assignment = [Top.assignment EXCEPT ![Top.x] = Assigned(val)]

\* the cells generate_constraints(x) returns
Neighbours(x) ==
    LET ys == generate_constraints(x) IN {ys[k] : k \in 1 .. Len(ys)}

\* the pair ac3 pops next
NextPopped == queue[Len(queue)]

\* C19: generate_constraints(x) returns 20 distinct cells of the grid other
\* than x: the 8 other cells of x's row, the 8 other cells of x's column and
\* the 4 cells of x's box in another row and another column; y is among the
\* cells returned for x exactly if x is among the cells returned for y.
\* Stated of the cell of the pair ac3 pops next, which is every cell of the
\* grid in the course of a search.
C19_Neighbourhood ==
    (pc = "ac3" /\ queue # << >>) =>
        LET x == NextPopped.x
            ys == generate_constraints(x)
            N == {ys[k] : k \in 1 .. Len(ys)}
            InRow == {y \in Idx : y # x /\ RowOf(y) = RowOf(x)}
            InCol == {y \in Idx : y # x /\ ColOf(y) = ColOf(x)}
            InBox == {y \in Idx : /\ BoxOf(y) = BoxOf(x)
                                  /\ RowOf(y) # RowOf(x)
                                  /\ ColOf(y) # ColOf(x)}
        IN /\ Len(ys) = 20
           /\ Cardinality(N) = 20
           /\ N \subseteq Idx
           /\ x \notin N
           /\ Cardinality(InRow) = 8 /\ Cardinality(InCol) = 8
           /\ Cardinality(InBox) = 4
           /\ N = InRow \cup InCol \cup InBox
           /\ \A y \in Idx : y \in N <=> x \in Neighbours(y)

\* the last pair of a full grid is about to be popped: every cell of the grid
\* has been the cell of the pair popped next
C19_Witness ==
    /\ pc = "ac3"
    /\ Len(queue) = 1
    /\ NextPopped.x = 0
    /\ NumAssigned(new_assignment) = Cells
    /\ input = BlankDigits

====
